---- MODULE Spec2Model ----
(***************************************************************************)
(* Ear-clipping polygon triangulation, as implemented twice in the         *)
(* repository:                                                             *)
(*   - the linked-list drivers naiveEarCutting / optimizedEarCutting,      *)
(*     reached through triangulate(polygon, method), on a CircularList of  *)
(*     Vertex nodes;                                                       *)
(*   - class PolygonTriangulation (naiveTriangulation /                    *)
(*     improvedTriangulation) on an array of remaining vertex indices.     *)
(* One behaviour of the model is one call of one driver on one input.      *)
(* Points are pairs <<x, y>> of integers; every value the code computes on  *)
(* them is then an integer that a JS double holds exactly.                 *)
(***************************************************************************)
EXTENDS Integers, Sequences, FiniteSets, TLC

\* Number of lattice points the inputs are drawn from (see GridPointAt).
MaxPoints == 8
\* Largest number of points of an input drawn from the lattice.
MaxN == 5
\* Number of Vertex nodes a user of CircularList has at hand.
MaxNodes == 4
\* Ear tests of one call of naiveEarCutting that are counted.
MaxTests == 3

\* The null reference (CircularList.head of an empty list; a missing argument).
Null == 0

VARIABLES
  points,            \* the input array of the call
  method,            \* the driver that is called
  pc,                \* "call", "build", "loop", "returned", "threw"
  err,               \* the kind of the error thrown, "" when none
  triangles,         \* the driver's local array of triangles
  remainingVertices, \* PolygonTriangulation: indices still on the boundary
  isConvexOf,        \* improvedTriangulation: its local array isConvex
  listMade,          \* linked-list drivers: new CircularList() has run
  head,              \* vertices.head (a node, or Null)
  size,              \* vertices.size
  next,              \* Vertex.next of every node created so far
  prev,              \* Vertex.prev of every node created so far
  i,                 \* createDoublyLinkedList, optimizedEarCutting: loop index
  vertexIsConvex,    \* Vertex.isConvex of every node
  convexVertices,    \* optimizedEarCutting: its list convexVertices
  concaveVertices,   \* optimizedEarCutting: its list concaveVertices
  curr,              \* optimizedEarCutting: its local curr
  vertex,            \* naiveEarCutting: the node of its last ear test
  tests,             \* naiveEarCutting: ear tests made so far (up to MaxTests)
  members,           \* the nodes a user of CircularList has inserted and not deleted
  result             \* the value a function called on its own returned

vars == <<points, method, pc, err, triangles, remainingVertices, isConvexOf,
          listMade, head, size, next, prev, i, vertexIsConvex, convexVertices,
          concaveVertices, curr, vertex, tests, members, result>>

LinkedMethods == {"naiveEarCutting", "optimizedEarCutting"}
ClassMethods == {"naiveTriangulation", "improvedTriangulation"}
Methods == LinkedMethods \cup ClassMethods

(***************************************************************************)
(* Inputs.                                                                 *)
(***************************************************************************)
\* The lattice points of the quadrant x, y >= 0 in the order of growing
\* squares: (0,0); (1,0), (1,1), (0,1); (2,0), (2,1), (2,2), (1,2), (0,2); ...
\* The first m * m of them are the square grid with coordinates 0..m-1.
Shell(k) == CHOOSE s \in 0..k : s * s < k /\ k <= (s + 1) * (s + 1)

GridPointAt(k) ==
  LET s == Shell(k)
      j == k - s * s
  IN  IF j <= s + 1 THEN <<s, j - 1>> ELSE <<s - (j - (s + 1)), s>>

GridPoint == {GridPointAt(k) : k \in 1..MaxPoints}

IsInjective(s) == \A a, b \in DOMAIN s : a # b => s[a] # s[b]

\* Arrays of at most MaxN pairwise distinct lattice points: for these, JS
\* reference equality of two array elements is equality of the points.
GridInputs ==
  UNION {{s \in [1..k -> GridPoint] : IsInjective(s)} : k \in 0..MaxN}

\* The fixtures of the specification that do not fit the grid.
Square == <<(<<0, 0>>), (<<4, 0>>), (<<4, 4>>), (<<0, 4>>)>>

Inputs == GridInputs \cup {Square}

(***************************************************************************)
(* PolygonTriangulation: predicates.                                       *)
(***************************************************************************)
isTriangleOrientedCCW(p1, p2, p3) ==
  (p2[1] - p1[1]) * (p3[2] - p1[2]) - (p2[2] - p1[2]) * (p3[1] - p1[1]) > 0

sign(p1, p2, p3) ==
  (p1[1] - p3[1]) * (p2[2] - p3[2]) - (p2[1] - p3[1]) * (p1[2] - p3[2])

pointInTriangle(p, a, b, c) ==
  LET d1 == sign(p, a, b)
      d2 == sign(p, b, c)
      d3 == sign(p, c, a)
      hasNeg == (d1 < 0) \/ (d2 < 0) \/ (d3 < 0)
      hasPos == (d1 > 0) \/ (d2 > 0) \/ (d3 > 0)
  IN  ~(hasNeg /\ hasPos)

\* JS arrays are 0-based: At(a, k) is a[k], PointOf(pts, v) is this.points[v].
At(a, k) == a[k + 1]
PointOf(pts, v) == pts[v + 1]
IndexOf(a, v) == CHOOSE k \in 0..(Len(a) - 1) : At(a, k) = v
Splice(a, k) == [j \in 1..(Len(a) - 1) |-> IF j <= k THEN a[j] ELSE a[j + 1]]

PrevIn(a, k) == At(a, (k - 1 + Len(a)) % Len(a))
NextIn(a, k) == At(a, (k + 1) % Len(a))

PolygonTriangulation_isEar(pts, v, vertices) ==
  LET idx == IndexOf(vertices, v)
      pv == PrevIn(vertices, idx)
      nx == NextIn(vertices, idx)
  IN  /\ isTriangleOrientedCCW(PointOf(pts, pv), PointOf(pts, v), PointOf(pts, nx))
      /\ \A k \in 0..(Len(vertices) - 1) :
           LET j == At(vertices, k)
           IN  (j # v /\ j # pv /\ j # nx) =>
                 ~pointInTriangle(PointOf(pts, j), PointOf(pts, pv),
                                  PointOf(pts, v), PointOf(pts, nx))

Triangle(p1, p2, p3) == <<p1, p2, p3>>

\* TriangleAt with the neighbours the vertex had in the input polygon.
TriangleAt_InputNeighbours(pts, rem, k) ==
  LET n == Len(pts)
      v == At(rem, k)
  IN  Triangle(PointOf(pts, (v - 1 + n) % n), PointOf(pts, v),
               PointOf(pts, (v + 1) % n))

\* new Triangle(points[prev], points[vertex], points[next]) for the vertex at
\* position k of the remaining vertices.
TriangleAt(pts, rem, k) ==
  Triangle(PointOf(pts, PrevIn(rem, k)), PointOf(pts, At(rem, k)),
           PointOf(pts, NextIn(rem, k)))

\* FinalTriangle with the indirection through the remaining indices forgotten.
FinalTriangle_ByPosition(pts, rem) ==
  Triangle(PointOf(pts, 0), PointOf(pts, 1), PointOf(pts, 2))

FinalTriangle(pts, rem) ==
  Triangle(PointOf(pts, At(rem, 0)), PointOf(pts, At(rem, 1)),
           PointOf(pts, At(rem, 2)))

AllIndices(n) == [k \in 1..n |-> k - 1]

Min(S) == CHOOSE x \in S : \A y \in S : x <= y

(***************************************************************************)
(* PolygonTriangulation.naiveTriangulation: one iteration of its while     *)
(* loop, as a function of the loop's state.                                *)
(***************************************************************************)
NaiveEarPositions(pts, rem) ==
  {k \in 0..(Len(rem) - 1) : PolygonTriangulation_isEar(pts, At(rem, k), rem)}

NaiveStep(pts, rem, tris) ==
  LET ears == NaiveEarPositions(pts, rem)
  IN  IF ears # {}
      THEN [foundEar |-> TRUE,
            rem |-> Splice(rem, Min(ears)),
            tris |-> Append(tris, TriangleAt(pts, rem, Min(ears)))]
      ELSE [foundEar |-> FALSE, rem |-> rem, tris |-> tris]

(***************************************************************************)
(* PolygonTriangulation.improvedTriangulation.                             *)
(***************************************************************************)
\* The pre-computed array isConvex, indexed by vertex index 0..n-1.
InitialConvexity(pts) ==
  LET n == Len(pts)
  IN  [v \in 0..(n - 1) |->
         isTriangleOrientedCCW(PointOf(pts, (v - 1 + n) % n), PointOf(pts, v),
                               PointOf(pts, (v + 1) % n))]

\* "Update convexity of adjacent vertices" for the vertex at position k.
UpdateConvexity(pts, rem, flags, k) ==
  LET len == Len(rem)
      prevIdx == (k - 1 + len) % len
      nextIdx == (k + 1) % len
      pv == At(rem, prevIdx)
      nx == At(rem, nextIdx)
      flags1 == IF prevIdx > 0
                THEN [flags EXCEPT ![pv] =
                        isTriangleOrientedCCW(PointOf(pts, At(rem, prevIdx - 1)),
                                              PointOf(pts, pv), PointOf(pts, nx))]
                ELSE flags
  IN  IF nextIdx < len - 1
      THEN [flags1 EXCEPT ![nx] =
              isTriangleOrientedCCW(PointOf(pts, pv), PointOf(pts, nx),
                                    PointOf(pts, At(rem, nextIdx + 1)))]
      ELSE flags1

\* ConvexEarPositions with the recorded flag trusted and isEar not called.
ConvexEarPositions_ByFlag(pts, rem, flags) ==
  {k \in 0..(Len(rem) - 1) : flags[At(rem, k)]}

\* The positions at which the first for loop of an iteration finds
\* isConvex[vertex] && this.isEar(vertex, remainingVertices).
ConvexEarPositions(pts, rem, flags) ==
  {k \in 0..(Len(rem) - 1) :
     flags[At(rem, k)] /\ PolygonTriangulation_isEar(pts, At(rem, k), rem)}

ConcaveEarPositions(pts, rem, flags) ==
  {k \in 0..(Len(rem) - 1) :
     ~flags[At(rem, k)] /\ PolygonTriangulation_isEar(pts, At(rem, k), rem)}

ImprovedStep(pts, rem, flags, tris) ==
  LET convexEars == ConvexEarPositions(pts, rem, flags)
      concaveEars == ConcaveEarPositions(pts, rem, flags)
  IN  IF convexEars # {}
      THEN [foundEar |-> TRUE,
            rem |-> Splice(rem, Min(convexEars)),
            flags |-> UpdateConvexity(pts, rem, flags, Min(convexEars)),
            tris |-> Append(tris, TriangleAt(pts, rem, Min(convexEars)))]
      ELSE IF concaveEars # {}
      THEN [foundEar |-> TRUE,
            rem |-> Splice(rem, Min(concaveEars)),
            flags |-> flags,
            tris |-> Append(tris, TriangleAt(pts, rem, Min(concaveEars)))]
      ELSE [foundEar |-> FALSE, rem |-> rem, flags |-> flags, tris |-> tris]

(***************************************************************************)
(* The two methods of PolygonTriangulation as functions of the input: the  *)
(* iteration of the steps above until the loop ends or throws.             *)
(***************************************************************************)
RECURSIVE NaiveLoop(_, _, _)
NaiveLoop(pts, rem, tris) ==
  IF Len(rem) > 3
  THEN LET r == NaiveStep(pts, rem, tris)
       IN  IF r.foundEar
           THEN NaiveLoop(pts, r.rem, r.tris)
           ELSE [returned |-> FALSE, tris |-> <<>>]
  ELSE [returned |-> TRUE, tris |-> Append(tris, FinalTriangle(pts, rem))]

naiveTriangulation(pts) ==
  IF Len(pts) < 3
  THEN [returned |-> TRUE, tris |-> <<>>]
  ELSE NaiveLoop(pts, AllIndices(Len(pts)), <<>>)

RECURSIVE ImprovedLoop(_, _, _, _)
ImprovedLoop(pts, rem, flags, tris) ==
  IF Len(rem) > 3
  THEN LET r == ImprovedStep(pts, rem, flags, tris)
       IN  IF r.foundEar
           THEN ImprovedLoop(pts, r.rem, r.flags, r.tris)
           ELSE [returned |-> FALSE, tris |-> <<>>]
  ELSE [returned |-> TRUE, tris |-> Append(tris, FinalTriangle(pts, rem))]

improvedTriangulation(pts) ==
  IF Len(pts) < 3
  THEN [returned |-> TRUE, tris |-> <<>>]
  ELSE ImprovedLoop(pts, AllIndices(Len(pts)), InitialConvexity(pts), <<>>)

(***************************************************************************)
(* Linked-list variant: predicates.                                        *)
(***************************************************************************)
cross(v1, v2) == v1[1] * v2[2] - v1[2] * v2[1]

getOrientation(p1, p2, p3) ==
  LET v1 == <<p1[1] - p2[1], p1[2] - p2[2]>>
      v2 == <<p3[1] - p2[1], p3[2] - p2[2]>>
      res == cross(v1, v2)
  IN  IF res > 0 THEN 1 ELSE IF res < 0 THEN -1 ELSE 0

isConvex(a, b, c) == getOrientation(a, b, c) = 1

(***************************************************************************)
(* CircularList.                                                           *)
(***************************************************************************)
\* The node reached from node n by following the links nx k times.
RECURSIVE NthNextIn(_, _, _)
NthNextIn(nx, n, k) == IF k = 0 THEN n ELSE NthNextIn(nx, nx[n], k - 1)

\* insert(newNode, previous) on the list (h, sz) over the links nx, pv.
\* threw: the TypeError of reading previous.next when previous is missing.
CircularList_insert(h, sz, nx, pv, newNode, previous) ==
  IF h = Null
  THEN [head |-> newNode, size |-> sz + 1,
        next |-> [nx EXCEPT ![newNode] = newNode],
        prev |-> [pv EXCEPT ![newNode] = newNode], threw |-> FALSE]
  ELSE IF previous = Null
  THEN [head |-> h, size |-> sz, next |-> nx, prev |-> pv, threw |-> TRUE]
  ELSE LET n == nx[previous]
           nx1 == [nx EXCEPT ![previous] = newNode]
           pv1 == [pv EXCEPT ![newNode] = previous]
           nx2 == [nx1 EXCEPT ![newNode] = n]
           pv2 == [pv1 EXCEPT ![n] = newNode]
       IN  [head |-> h, size |-> sz + 1, next |-> nx2, prev |-> pv2,
            threw |-> FALSE]

\* delete(node) with the statement next.prev = prev left out.
CircularList_delete_NoBackLink(h, sz, nx, pv, node) ==
  IF sz = 1 /\ node = h
  THEN [head |-> Null, size |-> 0, next |-> nx, prev |-> pv]
  ELSE LET h1 == IF node = h THEN nx[h] ELSE h
           p == pv[node]
           n == nx[node]
           nx1 == [nx EXCEPT ![p] = n]
       IN  [head |-> h1, size |-> sz - 1, next |-> nx1, prev |-> pv]

\* delete(node) with the update of head (if (node === this.head) ...) left
\* out.
CircularList_delete_KeepsHead(h, sz, nx, pv, node) ==
  IF sz = 1 /\ node = h
  THEN [head |-> Null, size |-> 0, next |-> nx, prev |-> pv]
  ELSE LET p == pv[node]
           n == nx[node]
           nx1 == [nx EXCEPT ![p] = n]
           pv1 == [pv EXCEPT ![n] = p]
       IN  [head |-> h, size |-> sz - 1, next |-> nx1, prev |-> pv1]

\* delete(node) for a node that is not null (the caller's nodes never are).
CircularList_delete(h, sz, nx, pv, node) ==
  IF sz = 1 /\ node = h
  THEN [head |-> Null, size |-> 0, next |-> nx, prev |-> pv]
  ELSE LET h1 == IF node = h THEN nx[h] ELSE h
           p == pv[node]
           n == nx[node]
           nx1 == [nx EXCEPT ![p] = n]
           pv1 == [pv EXCEPT ![n] = p]
       IN  [head |-> h1, size |-> sz - 1, next |-> nx1, prev |-> pv1]

\* new CircularList(): head = null, size = 0.
EmptyList == [head |-> Null, size |-> 0]

\* The value of a parameter the caller gave no argument for, where a list is
\* expected.
Undefined == [undefined |-> TRUE]

(***************************************************************************)
(* Linked-list variant: the ear test. Results are "true", "false", or      *)
(* "threw" when the call ends in an exception.                             *)
(***************************************************************************)
\* isWithinTriangle with the test for a point on an edge reduced to "some
\* orientation is 0".
isWithinTriangle_AnyZero(point, a, b, c) ==
  IF getOrientation(a, b, c) = 0 THEN "threw"
  ELSE IF point = a \/ point = b \/ point = c THEN "true"
  ELSE LET o1 == getOrientation(point, a, b)
           o2 == getOrientation(point, b, c)
           o3 == getOrientation(point, c, a)
       IN  IF o1 = o2 /\ o2 = o3 THEN "true"
           ELSE IF o1 * o2 * o3 = 0 THEN "true"
           ELSE "false"

\* isWithinTriangle with its first two if statements in the other order: a
\* point that is a corner is answered before the triangle is looked at.
isWithinTriangle_CornerFirst(point, a, b, c) ==
  IF point = a \/ point = b \/ point = c THEN "true"
  ELSE IF getOrientation(a, b, c) = 0 THEN "threw"
  ELSE LET o1 == getOrientation(point, a, b)
           o2 == getOrientation(point, b, c)
           o3 == getOrientation(point, c, a)
       IN  IF o1 = o2 /\ o2 = o3 THEN "true"
           ELSE IF o1 * o2 * o3 = 0
           THEN (IF o1 = o2 \/ o1 = o3 \/ o2 = o3 THEN "true" ELSE "false")
           ELSE "false"

isWithinTriangle(point, a, b, c) ==
  IF getOrientation(a, b, c) = 0 THEN "threw"
  ELSE IF point = a \/ point = b \/ point = c THEN "true"
  ELSE LET o1 == getOrientation(point, a, b)
           o2 == getOrientation(point, b, c)
           o3 == getOrientation(point, c, a)
       IN  IF o1 = o2 /\ o2 = o3 THEN "true"
           ELSE IF o1 * o2 * o3 = 0
           THEN (IF o1 = o2 \/ o1 = o3 \/ o2 = o3 THEN "true" ELSE "false")
           ELSE "false"

\* The for loop of isEar without the `continue` for the points a, b and c.
RECURSIVE isEar_Loop_NoSkip(_, _, _, _, _, _, _)
isEar_Loop_NoSkip(pts, nx, a, b, c, curr0, left) ==
  IF left = 0 THEN "true"
  ELSE LET w == isWithinTriangle(pts[curr0], a, b, c)
       IN  IF w = "threw" THEN "threw"
           ELSE IF w = "true" THEN "false"
           ELSE isEar_Loop_NoSkip(pts, nx, a, b, c, nx[curr0], left - 1)

\* The for loop of isEar from the node curr0 with `left` iterations to go;
\* node k wraps pts[k].
RECURSIVE isEar_Loop(_, _, _, _, _, _, _)
isEar_Loop(pts, nx, a, b, c, curr0, left) ==
  IF left = 0 THEN "true"
  ELSE LET point == pts[curr0]
       IN  IF point = a \/ point = b \/ point = c
           THEN isEar_Loop(pts, nx, a, b, c, nx[curr0], left - 1)
           ELSE LET w == isWithinTriangle(point, a, b, c)
                IN  IF w = "threw" THEN "threw"
                    ELSE IF w = "true" THEN "false"
                    ELSE isEar_Loop(pts, nx, a, b, c, nx[curr0], left - 1)

\* isEar(a, b, c, otherPoints); otherPoints is a list [head, size] over the
\* links nx, or Undefined when the caller passes no fourth argument (the read
\* of otherPoints.head then throws a TypeError).
isEar(pts, nx, a, b, c, otherPoints) ==
  IF ~isConvex(a, b, c) THEN "false"
  ELSE IF otherPoints = Undefined THEN "threw"
  ELSE isEar_Loop(pts, nx, a, b, c, otherPoints.head, otherPoints.size)

\* The function isEar of triangulation.js (not the method of the class):
\* otherPoints is an array; the loop body reads an undeclared variable
\* `array` (a ReferenceError), and after the loop nothing is returned.
triangulation_isEar(a, b, c, otherPoints) ==
  IF ~isConvex(a, b, c) THEN "false"
  ELSE IF 0 < Len(otherPoints) THEN "threw"
  ELSE "undefined"

(***************************************************************************)
(* The state machine.                                                      *)
(***************************************************************************)
Init ==
  /\ points \in Inputs
  /\ method \in Methods
  /\ pc = "call"
  /\ err = ""
  /\ triangles = <<>>
  /\ remainingVertices = <<>>
  /\ isConvexOf = <<>>
  /\ listMade = FALSE
  /\ head = Null
  /\ size = 0
  /\ next = <<>>
  /\ prev = <<>>
  /\ i = 0
  /\ vertexIsConvex = <<>>
  /\ convexVertices = EmptyList
  /\ concaveVertices = EmptyList
  /\ curr = Null
  /\ vertex = Null
  /\ tests = 0
  /\ members = {}
  /\ result = "none"

ClassUnchanged ==
  UNCHANGED <<listMade, head, size, next, prev, i, vertexIsConvex,
              convexVertices, concaveVertices, curr, vertex, tests, members,
              result>>
LinkedUnchanged == UNCHANGED <<remainingVertices, isConvexOf>>
BuildUnchanged ==
  UNCHANGED <<vertexIsConvex, convexVertices, concaveVertices, curr, vertex,
              tests, members, result>>

\* naiveTriangulation up to its while loop.
naiveTriangulation_Start ==
  /\ method = "naiveTriangulation" /\ pc = "call"
  /\ IF Len(points) < 3
     THEN pc' = "returned" /\ UNCHANGED remainingVertices
     ELSE pc' = "loop" /\ remainingVertices' = AllIndices(Len(points))
  /\ UNCHANGED <<points, method, err, triangles, isConvexOf>>
  /\ ClassUnchanged

\* One iteration of the while loop of naiveTriangulation with the condition
\* remainingVertices.length >= 3.
naiveTriangulation_Iterate_AtThree ==
  /\ method = "naiveTriangulation" /\ pc = "loop"
  /\ Len(remainingVertices) >= 3
  /\ LET r == NaiveStep(points, remainingVertices, triangles)
     IN  IF r.foundEar
         THEN /\ remainingVertices' = r.rem
              /\ triangles' = r.tris
              /\ UNCHANGED <<pc, err>>
         ELSE /\ pc' = "threw"
              /\ err' = "NoEarFound"
              /\ UNCHANGED <<remainingVertices, triangles>>
  /\ UNCHANGED <<points, method, isConvexOf>>
  /\ ClassUnchanged

\* One iteration of the while loop of naiveTriangulation.
naiveTriangulation_Iterate ==
  /\ method = "naiveTriangulation" /\ pc = "loop"
  /\ Len(remainingVertices) > 3
  /\ LET r == NaiveStep(points, remainingVertices, triangles)
     IN  IF r.foundEar
         THEN /\ remainingVertices' = r.rem
              /\ triangles' = r.tris
              /\ UNCHANGED <<pc, err>>
         ELSE /\ pc' = "threw"
              /\ err' = "NoEarFound"
              /\ UNCHANGED <<remainingVertices, triangles>>
  /\ UNCHANGED <<points, method, isConvexOf>>
  /\ ClassUnchanged

\* "Add final triangle" and return.
naiveTriangulation_Finish ==
  /\ method = "naiveTriangulation" /\ pc = "loop"
  /\ ~(Len(remainingVertices) > 3)
  /\ triangles' = Append(triangles, FinalTriangle(points, remainingVertices))
  /\ pc' = "returned"
  /\ UNCHANGED <<points, method, err, remainingVertices, isConvexOf>>
  /\ ClassUnchanged

\* improvedTriangulation answering fewer than 3 points as triangulate does,
\* with an error.
improvedTriangulation_Start_Throws ==
  /\ method = "improvedTriangulation" /\ pc = "call"
  /\ IF Len(points) < 3
     THEN /\ pc' = "threw" /\ err' = "InvalidInput"
          /\ UNCHANGED <<remainingVertices, isConvexOf>>
     ELSE /\ pc' = "loop" /\ UNCHANGED err
          /\ isConvexOf' = InitialConvexity(points)
          /\ remainingVertices' = AllIndices(Len(points))
  /\ UNCHANGED <<points, method, triangles>>
  /\ ClassUnchanged

\* improvedTriangulation up to its while loop.
improvedTriangulation_Start ==
  /\ method = "improvedTriangulation" /\ pc = "call"
  /\ IF Len(points) < 3
     THEN pc' = "returned" /\ UNCHANGED <<remainingVertices, isConvexOf>>
     ELSE /\ pc' = "loop"
          /\ isConvexOf' = InitialConvexity(points)
          /\ remainingVertices' = AllIndices(Len(points))
  /\ UNCHANGED <<points, method, err, triangles>>
  /\ ClassUnchanged

improvedTriangulation_Iterate ==
  /\ method = "improvedTriangulation" /\ pc = "loop"
  /\ Len(remainingVertices) > 3
  /\ LET r == ImprovedStep(points, remainingVertices, isConvexOf, triangles)
     IN  IF r.foundEar
         THEN /\ remainingVertices' = r.rem
              /\ isConvexOf' = r.flags
              /\ triangles' = r.tris
              /\ UNCHANGED <<pc, err>>
         ELSE /\ pc' = "threw"
              /\ err' = "NoEarFound"
              /\ UNCHANGED <<remainingVertices, isConvexOf, triangles>>
  /\ UNCHANGED <<points, method>>
  /\ ClassUnchanged

improvedTriangulation_Finish ==
  /\ method = "improvedTriangulation" /\ pc = "loop"
  /\ ~(Len(remainingVertices) > 3)
  /\ triangles' = Append(triangles, FinalTriangle(points, remainingVertices))
  /\ pc' = "returned"
  /\ UNCHANGED <<points, method, err, remainingVertices, isConvexOf>>
  /\ ClassUnchanged

\* triangulate with the size checks answering as PolygonTriangulation does:
\* an empty list of triangles instead of an error.
triangulate_ReturnsEmpty ==
  /\ method \in LinkedMethods /\ pc = "call"
  /\ IF Len(points) < 3
     THEN /\ pc' = "returned" /\ UNCHANGED err
          /\ UNCHANGED <<listMade, head, size>>
     ELSE /\ pc' = "build" /\ UNCHANGED err
          /\ listMade' = TRUE /\ head' = Null /\ size' = 0
  /\ UNCHANGED <<points, method, triangles, next, prev, i>>
  /\ LinkedUnchanged
  /\ BuildUnchanged

\* triangulate(polygon, method) for naiveEarCutting and optimizedEarCutting:
\* the size check of the driver, then createDoublyLinkedList up to its loop
\* (its own size check, then new CircularList()).
triangulate ==
  /\ method \in LinkedMethods /\ pc = "call"
  /\ IF Len(points) < 3
     THEN /\ pc' = "threw" /\ err' = "InvalidInput"
          /\ UNCHANGED <<listMade, head, size>>
     ELSE IF Len(points) < 3
     THEN /\ pc' = "threw" /\ err' = "InvalidInput"
          /\ UNCHANGED <<listMade, head, size>>
     ELSE /\ pc' = "build" /\ UNCHANGED err
          /\ listMade' = TRUE /\ head' = Null /\ size' = 0
  /\ UNCHANGED <<points, method, triangles, next, prev, i>>
  /\ LinkedUnchanged
  /\ BuildUnchanged

\* One iteration of the loop of createDoublyLinkedList: new Vertex(points[i])
\* and vertices.insert(newVertex), which passes no second argument.
createDoublyLinkedList_Insert ==
  /\ method \in LinkedMethods /\ pc = "build"
  /\ i < Len(points)
  /\ LET newVertex == Len(next) + 1
         r == CircularList_insert(head, size, Append(next, Null),
                                  Append(prev, Null), newVertex, Null)
     IN  /\ head' = r.head /\ size' = r.size
         /\ next' = r.next /\ prev' = r.prev
         /\ IF r.threw
            THEN pc' = "threw" /\ err' = "TypeError" /\ UNCHANGED i
            ELSE /\ i' = i + 1 /\ UNCHANGED err
                 /\ pc' = IF i + 1 < Len(points) THEN "build" ELSE "loop"
  /\ UNCHANGED <<points, method, triangles, listMade>>
  /\ LinkedUnchanged
  /\ BuildUnchanged

Next ==
  \/ naiveTriangulation_Start
  \/ naiveTriangulation_Iterate
  \/ naiveTriangulation_Finish
  \/ improvedTriangulation_Start
  \/ improvedTriangulation_Iterate
  \/ improvedTriangulation_Finish
  \/ triangulate
  \/ createDoublyLinkedList_Insert

Spec == Init /\ [][Next]_vars

(***************************************************************************)
(* The predicates called on their own: one behaviour is one call of one    *)
(* function on one input.                                                  *)
(*   isEar(points[0], points[1], points[2], list of all the points)        *)
(*   isEar(points[0], points[1], points[2], points.slice(3)), the function *)
(*     of triangulation.js                                                 *)
(*   new PolygonTriangulation(points).isEar(1, [0, ..., n-1])              *)
(*   isWithinTriangle(points[0], points[1], points[2], points[3])          *)
(*   pointInTriangle(points[0], points[1], points[2], points[3])           *)
(***************************************************************************)
EarFunctions == {"isEar", "triangulation.isEar", "PolygonTriangulation.isEar"}
TriangleFunctions == {"isWithinTriangle", "PolygonTriangulation.pointInTriangle"}

\* Every array of 4 lattice points, equal points included.
Quadruples == [1..4 -> GridPoint]

\* Nodes that new Vertex(point) has made and no list has linked yet.
FreshLinks(n) == [k \in 1..n |-> Null]

\* The list made of the nodes 1..k of n by insert(node, last node inserted).
RECURSIVE ListOfFirst(_, _)
ListOfFirst(n, k) ==
  IF k = 0
  THEN [head |-> Null, size |-> 0, next |-> FreshLinks(n),
        prev |-> FreshLinks(n), threw |-> FALSE]
  ELSE LET l == ListOfFirst(n, k - 1)
       IN  CircularList_insert(l.head, l.size, l.next, l.prev, k,
                               IF k = 1 THEN Null ELSE k - 1)

BuiltList(n) == ListOfFirst(n, n)

AsResult(b) == IF b THEN "true" ELSE "false"

\* The variables only the drivers use.
NoDriverState ==
  /\ err = "" /\ triangles = <<>> /\ remainingVertices = <<>>
  /\ isConvexOf = <<>> /\ i = 0 /\ vertexIsConvex = <<>>
  /\ convexVertices = EmptyList /\ concaveVertices = EmptyList
  /\ curr = Null /\ vertex = Null /\ tests = 0

InitUnits ==
  /\ method \in EarFunctions \cup TriangleFunctions
  /\ points \in IF method \in EarFunctions
                THEN {s \in Inputs : Len(s) >= 3}
                ELSE Quadruples
  /\ pc = "call"
  /\ result = "none"
  /\ members = {}
  /\ listMade = (method = "isEar")
  /\ LET l == IF method = "isEar" THEN BuiltList(Len(points)) ELSE BuiltList(0)
     IN  head = l.head /\ size = l.size /\ next = l.next /\ prev = l.prev
  /\ NoDriverState

UnitUnchanged ==
  UNCHANGED <<points, method, err, triangles, remainingVertices, isConvexOf,
              listMade, head, size, next, prev, i, vertexIsConvex,
              convexVertices, concaveVertices, curr, vertex, tests, members>>

Return(r) ==
  /\ result' = r
  /\ pc' = IF r = "threw" THEN "threw" ELSE "returned"
  /\ UnitUnchanged

isEar_Call ==
  /\ method = "isEar" /\ pc = "call"
  /\ Return(isEar(points, next, points[1], points[2], points[3],
                  [head |-> head, size |-> size]))

triangulation_isEar_Call ==
  /\ method = "triangulation.isEar" /\ pc = "call"
  /\ Return(triangulation_isEar(points[1], points[2], points[3],
                                SubSeq(points, 4, Len(points))))

PolygonTriangulation_isEar_Call ==
  /\ method = "PolygonTriangulation.isEar" /\ pc = "call"
  /\ Return(AsResult(PolygonTriangulation_isEar(points, 1,
                                                AllIndices(Len(points)))))

isWithinTriangle_Call ==
  /\ method = "isWithinTriangle" /\ pc = "call"
  /\ Return(isWithinTriangle(points[1], points[2], points[3], points[4]))

pointInTriangle_Call ==
  /\ method = "PolygonTriangulation.pointInTriangle" /\ pc = "call"
  /\ Return(AsResult(pointInTriangle(points[1], points[2], points[3],
                                     points[4])))

NextUnits ==
  \/ isEar_Call
  \/ triangulation_isEar_Call
  \/ PolygonTriangulation_isEar_Call
  \/ isWithinTriangle_Call
  \/ pointInTriangle_Call

SpecUnits == InitUnits /\ [][NextUnits]_vars

(***************************************************************************)
(* CircularList used on its own: a user holds MaxNodes nodes and one list, *)
(* inserts a node that is not in the list after a node that is (after      *)
(* nothing when the list is empty) and deletes nodes that are in the list. *)
(***************************************************************************)
Nodes == 1..MaxNodes

InitList ==
  /\ method = "CircularList"
  /\ points = <<>>
  /\ pc = "list"
  /\ result = "none"
  /\ members = {}
  /\ listMade = TRUE
  /\ head = Null /\ size = 0
  /\ next = FreshLinks(MaxNodes) /\ prev = FreshLinks(MaxNodes)
  /\ NoDriverState

ListUnchanged ==
  UNCHANGED <<points, method, pc, err, triangles, remainingVertices,
              isConvexOf, listMade, i, vertexIsConvex, convexVertices,
              concaveVertices, curr, vertex, tests, result>>

CircularList_Insert ==
  /\ method = "CircularList" /\ pc = "list"
  /\ \E newNode \in Nodes \ members :
       \E previous \in (IF members = {} THEN {Null} ELSE members) :
         LET r == CircularList_insert(head, size, next, prev, newNode, previous)
         IN  /\ head' = r.head /\ size' = r.size
             /\ next' = r.next /\ prev' = r.prev
             /\ members' = members \cup {newNode}
  /\ ListUnchanged

CircularList_Delete ==
  /\ method = "CircularList" /\ pc = "list"
  /\ \E node \in members :
       LET r == CircularList_delete(head, size, next, prev, node)
       IN  /\ head' = r.head /\ size' = r.size
           /\ next' = r.next /\ prev' = r.prev
           /\ members' = members \ {node}
  /\ ListUnchanged

NextList == CircularList_Insert \/ CircularList_Delete

SpecList == InitList /\ [][NextList]_vars

(***************************************************************************)
(* The loops of naiveEarCutting and optimizedEarCutting, started on the    *)
(* list that createDoublyLinkedList is documented to return ("Circular     *)
(* doubly linked list of vertices"): the nodes 1..n of the n points linked *)
(* by insert(node, last node). The function itself throws before it        *)
(* returns (see createDoublyLinkedList_Insert), so under Spec these loops  *)
(* are never entered.                                                      *)
(***************************************************************************)
InitLoops ==
  /\ method \in LinkedMethods
  /\ points \in {s \in Inputs : Len(s) >= 3}
  /\ err = "" /\ triangles = <<>>
  /\ remainingVertices = <<>> /\ isConvexOf = <<>>
  /\ listMade = TRUE
  /\ LET l == BuiltList(Len(points))
     IN  head = l.head /\ size = l.size /\ next = l.next /\ prev = l.prev
  /\ vertexIsConvex = [k \in 1..Len(points) |-> FALSE]
  /\ convexVertices = EmptyList /\ concaveVertices = EmptyList
  /\ i = 0 /\ vertex = Null /\ tests = 0
  /\ members = {} /\ result = "none"
  /\ IF method = "naiveEarCutting"
     THEN pc = "loop" /\ curr = Null
     ELSE pc = "classify" /\ curr = head

\* One iteration of the while loop of naiveEarCutting: the ear test of
\* vertices.head, called with three arguments.
naiveEarCutting_Iterate ==
  /\ method = "naiveEarCutting" /\ pc = "loop"
  /\ size > 3
  /\ vertex' = head
  /\ tests' = IF tests < MaxTests THEN tests + 1 ELSE tests
  /\ LET v == head
         r == isEar(points, next, points[prev[v]], points[v], points[next[v]],
                    Undefined)
         d == CircularList_delete(head, size, next, prev, v)
     IN  IF r = "threw"
         THEN /\ pc' = "threw" /\ err' = "TypeError"
              /\ UNCHANGED <<triangles, head, size, next, prev>>
         ELSE IF r = "true"
         THEN /\ triangles' = Append(triangles,
                                     <<points[prev[v]], points[v], points[next[v]]>>)
              /\ head' = d.head /\ size' = d.size
              /\ next' = d.next /\ prev' = d.prev
              /\ UNCHANGED <<pc, err>>
         ELSE UNCHANGED <<pc, err, triangles, head, size, next, prev>>
  /\ UNCHANGED <<points, method, listMade, i, vertexIsConvex, convexVertices,
                 concaveVertices, curr, members, result>>
  /\ LinkedUnchanged

\* "Add 3 remaining points" and return.
naiveEarCutting_Finish ==
  /\ method = "naiveEarCutting" /\ pc = "loop"
  /\ ~(size > 3)
  /\ triangles' = Append(triangles, <<points[head], points[next[head]],
                                      points[next[next[head]]]>>)
  /\ pc' = "returned"
  /\ UNCHANGED <<points, method, err, listMade, head, size, next, prev, i,
                 vertexIsConvex, convexVertices, concaveVertices, curr, vertex,
                 tests, members, result>>
  /\ LinkedUnchanged

\* One iteration of the loop "Fill the concave and convex lists" of
\* optimizedEarCutting; insert is called without a second argument. When the
\* loop ends the function goes on to "Mark initial ears".
optimizedEarCutting_Classify ==
  /\ method = "optimizedEarCutting" /\ pc = "classify"
  /\ i < size
  /\ LET convex == isConvex(points[prev[curr]], points[curr], points[next[curr]])
         l == IF convex THEN convexVertices ELSE concaveVertices
         r == CircularList_insert(l.head, l.size, next, prev, curr, Null)
         l1 == [head |-> r.head, size |-> r.size]
     IN  /\ vertexIsConvex' = [vertexIsConvex EXCEPT ![curr] = convex]
         /\ IF r.threw
            THEN /\ pc' = "threw" /\ err' = "TypeError"
                 /\ UNCHANGED <<convexVertices, concaveVertices, next, prev,
                                curr, i>>
            ELSE /\ convexVertices' = (IF convex THEN l1 ELSE convexVertices)
                 /\ concaveVertices' = (IF convex THEN concaveVertices ELSE l1)
                 /\ next' = r.next /\ prev' = r.prev
                 /\ curr' = r.next[curr]
                 /\ i' = i + 1
                 /\ pc' = (IF i + 1 < size THEN "classify" ELSE "markEars")
                 /\ UNCHANGED err
  /\ UNCHANGED <<points, method, triangles, listMade, head, size, vertex,
                 tests, members, result>>
  /\ LinkedUnchanged

NextLoops ==
  \/ naiveEarCutting_Iterate
  \/ naiveEarCutting_Finish
  \/ optimizedEarCutting_Classify

SpecLoops == InitLoops /\ [][NextLoops]_vars

\* A call runs on: JavaScript executes the function to its end.
FairSpecLoops == SpecLoops /\ WF_vars(NextLoops)

(***************************************************************************)
(* Plane geometry the properties are stated in (not part of the program).  *)
(***************************************************************************)
\* Twice the signed area of the triangle (o, a, b): positive when o, a, b
\* turn counter-clockwise in axes with y pointing up.
Cross(o, a, b) ==
  (a[1] - o[1]) * (b[2] - o[2]) - (a[2] - o[2]) * (b[1] - o[1])

Dot(o, a, b) ==
  (a[1] - o[1]) * (b[1] - o[1]) + (a[2] - o[2]) * (b[2] - o[2])

Sgn(x) == IF x > 0 THEN 1 ELSE IF x < 0 THEN -1 ELSE 0

Abs(x) == IF x < 0 THEN -x ELSE x

RECURSIVE ShoelaceTo(_, _)
ShoelaceTo(pts, k) ==
  IF k = 0 THEN 0
  ELSE LET p == pts[k]
           q == pts[(k % Len(pts)) + 1]
       IN  ShoelaceTo(pts, k - 1) + (p[1] * q[2] - q[1] * p[2])

\* Twice the signed area of the polygon (shoelace formula).
Area2(pts) == ShoelaceTo(pts, Len(pts))

TriArea2(t) == Cross(t[1], t[2], t[3])

RECURSIVE SumTriArea2To(_, _)
SumTriArea2To(tris, k) ==
  IF k = 0 THEN 0 ELSE SumTriArea2To(tris, k - 1) + TriArea2(tris[k])

SumTriArea2(tris) == SumTriArea2To(tris, Len(tris))

RECURSIVE SumAbsTriArea2To(_, _)
SumAbsTriArea2To(tris, k) ==
  IF k = 0 THEN 0 ELSE SumAbsTriArea2To(tris, k - 1) + Abs(TriArea2(tris[k]))

SumAbsTriArea2(tris) == SumAbsTriArea2To(tris, Len(tris))

\* r lies on the closed segment [p, q].
OnSegment(p, q, r) == Cross(p, q, r) = 0 /\ Dot(r, p, q) <= 0

\* The closed segments [p, q] and [r, s] have a common point.
SegmentsMeet(p, q, r, s) ==
  \/ /\ Sgn(Cross(p, q, r)) * Sgn(Cross(p, q, s)) < 0
     /\ Sgn(Cross(r, s, p)) * Sgn(Cross(r, s, q)) < 0
  \/ OnSegment(p, q, r) \/ OnSegment(p, q, s)
  \/ OnSegment(r, s, p) \/ OnSegment(r, s, q)

\* The edges [a, b] and [b, c] share more than the point b.
EdgesOverlap(a, b, c) == Cross(a, b, c) = 0 /\ Dot(b, a, c) > 0

EdgeStart(pts, e) == pts[e]
EdgeEnd(pts, e) == pts[(e % Len(pts)) + 1]

\* A simple polygon: at least three distinct vertices, consecutive edges meet
\* only in their common vertex, other edges do not meet.
IsSimple(pts) ==
  LET n == Len(pts)
  IN  /\ n >= 3
      /\ IsInjective(pts)
      /\ \A e \in 1..n :
           EdgesOverlap(EdgeStart(pts, e), EdgeEnd(pts, e),
                        EdgeEnd(pts, (e % n) + 1)) = FALSE
      /\ \A e, f \in 1..n :
           (e < f /\ f # e + 1 /\ ~(e = 1 /\ f = n)) =>
             ~SegmentsMeet(EdgeStart(pts, e), EdgeEnd(pts, e),
                           EdgeStart(pts, f), EdgeEnd(pts, f))

\* The winding of the fixture square (0,0),(4,0),(4,4),(0,4), which the
\* specification calls clockwise (it is, on a canvas whose y axis points down).
ExpectedWinding(pts) == Area2(pts) > 0

ValidPolygon(pts) == IsSimple(pts) /\ ExpectedWinding(pts)

PointSet(pts) == {pts[k] : k \in DOMAIN pts}
Corners(tris) == {tris[k][j] : k \in DOMAIN tris, j \in 1..3}

\* v lies strictly inside the triangle t.
StrictlyInside(v, t) ==
  LET s1 == Sgn(Cross(t[1], t[2], v))
      s2 == Sgn(Cross(t[2], t[3], v))
      s3 == Sgn(Cross(t[3], t[1], v))
  IN  s1 # 0 /\ s1 = s2 /\ s2 = s3

\* v lies in the closed triangle (a, b, c), whatever its orientation.
InClosedTriangle(v, a, b, c) ==
  LET s1 == Sgn(Cross(a, b, v))
      s2 == Sgn(Cross(b, c, v))
      s3 == Sgn(Cross(c, a, v))
  IN  ~((s1 < 0 \/ s2 < 0 \/ s3 < 0) /\ (s1 > 0 \/ s2 > 0 \/ s3 > 0))

\* The vertices with a reflex (or straight) angle, in the expected winding.
ReflexVertices(pts) ==
  LET n == Len(pts)
  IN  {k \in 1..n :
         Cross(pts[((k + n - 2) % n) + 1], pts[k], pts[(k % n) + 1]) <= 0}

Finished == pc \in {"returned", "threw"}
Returned == pc = "returned"

(***************************************************************************)
(* Properties.                                                             *)
(***************************************************************************)

\* C1: for every simple polygon with n >= 3 vertices in the expected winding,
\* the call returns, and returns exactly n - 2 triangles, whichever driver
\* is used.
C1_ReturnsNMinus2Triangles ==
  (Finished /\ ValidPolygon(points)) =>
    (Returned /\ Len(triangles) = Len(points) - 2)

\* C2: for every simple polygon, the call returns triangles whose signed
\* areas sum to the signed area of the polygon (both taken twice, as
\* integers).
C2_AreaIsPreserved ==
  (Finished /\ ValidPolygon(points)) =>
    (Returned /\ SumTriArea2(triangles) = Area2(points))

\* C3: for every simple polygon, the call returns triangles that all have
\* non-zero area and the orientation of the polygon's winding, the final
\* triangle included.
C3_TrianglesOrientedAsPolygon ==
  (Finished /\ ValidPolygon(points)) =>
    /\ Returned
    /\ \A k \in DOMAIN triangles :
         /\ TriArea2(triangles[k]) # 0
         /\ Sgn(TriArea2(triangles[k])) = Sgn(Area2(points))

\* C4: for every simple polygon, the call returns triangles none of which
\* has a polygon vertex other than its corners strictly inside; a pentagon
\* with exactly one reflex vertex gives 3 such triangles.
C4_NoVertexInsideATriangle ==
  (Finished /\ ValidPolygon(points)) =>
    /\ Returned
    /\ \A k \in DOMAIN triangles : \A v \in PointSet(points) :
         v \notin PointSet(triangles[k]) => ~StrictlyInside(v, triangles[k])
    /\ (Len(points) = 5 /\ Cardinality(ReflexVertices(points)) = 1) =>
         Len(triangles) = 3

\* C5, as claimed: whenever the call returns, the corners of the returned
\* triangles are exactly the input points.
C5_CornersAreTheInput_Original ==
  Returned => Corners(triangles) = PointSet(points)

\* C5, amended: whenever the call returns on an input of at least 3 points,
\* the corners of the returned triangles are exactly the input points.
C5_CornersAreTheInput ==
  (Returned /\ Len(points) >= 3) => Corners(triangles) = PointSet(points)

C5_Witness ==
  /\ Returned /\ Len(points) = 5 /\ ValidPolygon(points)
  /\ Cardinality(ReflexVertices(points)) = 1
  /\ Corners(triangles) = PointSet(points)

\* The result of the other method of PolygonTriangulation on the same input.
OtherMethodResult ==
  IF method = "naiveTriangulation"
  THEN improvedTriangulation(points)
  ELSE naiveTriangulation(points)

\* C6: for every valid simple polygon, the naive and the optimized method
\* both return, and their triangle lists cover the same total area and use
\* the same set of vertices.
C6_MethodsAgree ==
  (Finished /\ ValidPolygon(points)) =>
    /\ Returned
    /\ method \in ClassMethods =>
         /\ OtherMethodResult.returned
         /\ SumAbsTriArea2(OtherMethodResult.tris) = SumAbsTriArea2(triangles)
         /\ Corners(OtherMethodResult.tris) = Corners(triangles)

\* C7: on the square (0,0),(4,0),(4,4),(0,4) the call returns exactly 2
\* triangles whose areas total 16 (32 when taken twice), whichever driver is
\* used.
C7_SquareFixture ==
  (Finished /\ points = Square) =>
    (Returned /\ Len(triangles) = 2 /\ SumAbsTriArea2(triangles) = 32)

\* C8: naiveEarCutting and optimizedEarCutting, called with fewer than 3
\* points, throw the invalid-input error before any list or node is made and
\* produce no triangle.
C8_TooFewPointsRejected ==
  (method \in LinkedMethods /\ Len(points) < 3 /\ pc # "call") =>
    /\ pc = "threw" /\ err = "InvalidInput"
    /\ ~listMade /\ next = <<>> /\ prev = <<>>
    /\ triangles = <<>>

C8_Witness ==
  /\ method = "optimizedEarCutting" /\ Len(points) = 2
  /\ pc = "threw" /\ err = "InvalidInput" /\ ~listMade

\* The polygon that remains to be triangulated: the vertices the driver has
\* not clipped, in boundary order. (The linked-list drivers never clip.)
RemainingPolygon ==
  IF method \in ClassMethods /\ pc # "call"
  THEN [k \in 1..Len(remainingVertices) |-> PointOf(points, remainingVertices[k])]
  ELSE points

\* The convexity test of the driver that was called.
DriverConvex(a, b, c) ==
  IF method \in ClassMethods THEN isTriangleOrientedCCW(a, b, c)
  ELSE isConvex(a, b, c)

\* The vertex at position k of the boundary b is a valid ear: its angle is
\* convex for the driver and no other boundary vertex lies in the closed
\* triangle it forms with its two neighbours.
IsValidEar(b, k) ==
  LET n == Len(b)
      a == b[((k + n - 2) % n) + 1]
      c == b[(k % n) + 1]
  IN  /\ DriverConvex(a, b[k], c)
      /\ \A j \in 1..n :
           b[j] \notin {a, b[k], c} => ~InClosedTriangle(b[j], a, b[k], c)

NoEarLeft ==
  /\ Len(RemainingPolygon) > 3
  /\ \A k \in 1..Len(RemainingPolygon) : ~IsValidEar(RemainingPolygon, k)

\* C9: a call that ends while more than 3 boundary vertices remain, none of
\* them a valid ear, ends with the no-ear-found error (and not with a
\* triangle list or another failure).
C9_NoEarIsAnError ==
  (Finished /\ NoEarLeft) => (pc = "threw" /\ err = "NoEarFound")

\* C10: on three collinear points the call fails with a degenerate-geometry
\* or invalid-input error and returns no triangle.
C10_CollinearTripleRejected ==
  (Finished /\ Len(points) = 3 /\ Cross(points[1], points[2], points[3]) = 0) =>
    /\ pc = "threw" /\ err \in {"DegenerateGeometry", "InvalidInput"}
    /\ triangles = <<>>

\* The triple (a, b, c) is degenerate: the three points lie on one line.
Collinear(a, b, c) == Cross(a, b, c) = 0

\* The positions of remainingVertices that the current iteration of the while
\* loop passes to isEar: the for loops go up from position 0 and break at the
\* first ear; improvedTriangulation calls isEar only where the flag allows.
TestedPositions ==
  LET rem == remainingVertices
      all == 0..(Len(rem) - 1)
  IN  IF method = "naiveTriangulation"
      THEN LET ears == NaiveEarPositions(points, rem)
           IN  IF ears = {} THEN all ELSE 0..Min(ears)
      ELSE LET flagged == {k \in all : isConvexOf[At(rem, k)]}
               convexEars == ConvexEarPositions(points, rem, isConvexOf)
               concaveEars == ConcaveEarPositions(points, rem, isConvexOf)
           IN  IF convexEars # {}
               THEN {k \in flagged : k <= Min(convexEars)}
               ELSE IF concaveEars # {}
               THEN flagged \cup {k \in all \ flagged : k <= Min(concaveEars)}
               ELSE all

TestsCollinearCandidate ==
  /\ method \in ClassMethods /\ pc = "loop"
  /\ Len(points) > 3 /\ Len(remainingVertices) > 3
  /\ \E k \in TestedPositions :
       LET t == TriangleAt(points, remainingVertices, k)
       IN  Collinear(t[1], t[2], t[3])

\* C11: on a polygon with more than 3 vertices, a loop iteration that tests
\* an ear candidate (prev, vertex, next) of three collinear points ends the
\* call with the degenerate-geometry error; the candidate is not skipped as a
\* non-ear.
C11_CollinearCandidateIsAnError ==
  [][TestsCollinearCandidate =>
       (pc' = "threw" /\ err' = "DegenerateGeometry")]_vars

\* C12: on every simple polygon given in the reverse of the expected winding
\* the call ends by returning a triangle list, not by raising an error.
C12_ReverseWindingReturns ==
  (Finished /\ IsSimple(points) /\ Area2(points) < 0) => Returned

\* The node reached from node n by following next k times.
NthNext(n, k) == NthNextIn(next, n, k)

\* vertices is the circular list of the input: one node per point in input
\* order from head, closed by the node of the last point.
IsCircularListOf(pts) ==
  LET n == Len(pts)
  IN  /\ head # Null /\ size = n /\ Len(next) = n /\ Len(prev) = n
      /\ \A k \in 0..(n - 1) :
           /\ NthNext(head, k) = k + 1
           /\ next[k + 1] = (IF k + 1 = n THEN head ELSE k + 2)
           /\ prev[next[k + 1]] = k + 1

\* C14: createDoublyLinkedList(points) with n >= 3 points returns the
\* circular list of size n with one node per point in input order: the k-th
\* next from head wraps points[k], the last node's next is head and
\* head.prev is the last node.
C14_BuildReturnsCircularList ==
  (method \in LinkedMethods /\ Len(points) >= 3 /\ pc \notin {"call", "build"}) =>
    (pc = "loop" /\ IsCircularListOf(points))

\* C13: every call of naiveEarCutting or optimizedEarCutting with n >= 3
\* points comes to an end, by returning or by throwing; and after an ear test
\* that did not end the call, the next ear test is made on another node.
C13_DriversTerminate ==
  /\ <>Finished
  /\ [][(method = "naiveEarCutting" /\ pc = "loop" /\ vertex # Null
          /\ pc' = "loop") => vertex' # vertex]_vars

\* C15: after any sequence of insert(node, afterNode), with node not in the
\* list and afterNode in it (or the list empty), and delete(node), with node
\* in the list: following next from any node of the list comes back to it
\* after exactly size steps and not before, and next and prev are inverse to
\* each other at every node of the list.
C15_ListIsOneCircle ==
  method = "CircularList" =>
    \A n \in members :
      /\ NthNext(n, size) = n
      /\ \A k \in 1..(size - 1) : NthNext(n, k) # n
      /\ prev[next[n]] = n
      /\ next[prev[n]] = n

\* Three nodes in the list, and a node that was in it and has been deleted.
C15_Witness ==
  /\ method = "CircularList" /\ size = 3 /\ Cardinality(members) = 3
  /\ \E d \in Nodes \ members : next[d] # Null
  /\ head # 1

\* The nodes of the list l: those met from l.head in l.size steps of next.
NodesOf(l) ==
  IF l.head = Null THEN {} ELSE {NthNext(l.head, k) : k \in 0..(l.size - 1)}

Boundary == NodesOf([head |-> head, size |-> size])

\* C16: in optimizedEarCutting on more than 3 points, from the classification
\* pass on, and so at the start of every iteration of the main loop: no node
\* of the boundary is
\* in both sets or twice in one set, a node is in the convex set exactly
\* when its isConvex flag is true, and once the pass is over every node of
\* the boundary is in one of the sets.
C16_EachNodeInExactlyOneSet ==
  (/\ method = "optimizedEarCutting" /\ Len(points) > 3
   /\ pc \in {"classify", "markEars"}) =>
    /\ Cardinality(NodesOf(convexVertices)) = convexVertices.size
    /\ Cardinality(NodesOf(concaveVertices)) = concaveVertices.size
    /\ \A n \in Boundary :
         /\ ~(n \in NodesOf(convexVertices) /\ n \in NodesOf(concaveVertices))
         /\ n \in NodesOf(convexVertices) <=> vertexIsConvex[n]
         /\ pc # "classify" =>
              n \in NodesOf(convexVertices) \cup NodesOf(concaveVertices)

\* C18: a step of optimizedEarCutting that adds a node to the convex or the
\* concave set leaves the boundary list as it was: the next and prev of
\* every node, and the head and the size of the list.
C18_SetInsertKeepsTheBoundary ==
  [][(/\ method = "optimizedEarCutting"
      /\ (convexVertices' # convexVertices \/ concaveVertices' # concaveVertices))
       => (next' = next /\ prev' = prev /\ head' = head /\ size' = size)]_vars

\* optimizedEarCutting never gets past its classification pass: the second
\* insert into one of the two sets throws.
optimizedEarCutting_ThrowsWhileClassifying ==
  method = "optimizedEarCutting" =>
    /\ pc \in {"classify", "threw"}
    /\ pc = "threw" => (err = "TypeError" /\ i <= 2 /\ triangles = <<>>)

\* naiveEarCutting returns only when it is given 3 points, and it never
\* clips a node.
naiveEarCutting_ReturnsOnlyTriangles ==
  method = "naiveEarCutting" =>
    /\ size = Len(points)
    /\ pc = "returned" => (Len(points) = 3 /\ Len(triangles) = 1)

\* The point p lies in the closed triangle (a, b, c): the three triangles it
\* forms with the edges have the area of (a, b, c) between them.
InTriangleByArea(p, a, b, c) ==
  Abs(Cross(a, b, c)) =
    Abs(Cross(p, a, b)) + Abs(Cross(p, b, c)) + Abs(Cross(p, c, a))

\* The angle at b of (a, b, c) is convex for the winding each variant
\* assumes: a right turn for the linked-list variant, a left turn for
\* PolygonTriangulation (in axes with y pointing up).
ConvexCorner(a, b, c) ==
  IF method = "PolygonTriangulation.isEar"
  THEN Cross(a, b, c) > 0 ELSE Cross(a, b, c) < 0

\* C19: isEar(prev, vertex, next, candidates) returns true exactly when the
\* angle at vertex is convex and no candidate other than prev, vertex and
\* next lies in the closed triangle (prev, vertex, next); otherwise it
\* returns false; it never throws or gives another value.
C19_EarIsConvexAndEmpty ==
  (method \in EarFunctions /\ pc # "call") =>
    /\ pc = "returned"
    /\ result \in {"true", "false"}
    /\ result = "true" <=>
         /\ ConvexCorner(points[1], points[2], points[3])
         /\ \A k \in 4..Len(points) :
              ~InTriangleByArea(points[k], points[1], points[2], points[3])

\* The same for the isEar of part_001 and the method of the class alone.
isEar_IsConvexAndEmpty ==
  method \in {"isEar", "PolygonTriangulation.isEar"} => C19_EarIsConvexAndEmpty

\* C20: for a triangle (a, b, c) of three non-collinear points, in either
\* orientation, and any lattice point, the point-in-triangle test returns
\* true exactly when the point lies in the closed triangle (inside, on an
\* edge or at a corner) and false otherwise, also for a point on the line of
\* an edge beyond its ends.
C20_WithinIsTheClosedTriangle ==
  (/\ method \in TriangleFunctions /\ pc # "call"
   /\ ~Collinear(points[2], points[3], points[4])) =>
    /\ pc = "returned"
    /\ result \in {"true", "false"}
    /\ result = "true" <=>
         InTriangleByArea(points[1], points[2], points[3], points[4])

C20_Witness ==
  /\ method = "isWithinTriangle" /\ pc = "returned"
  /\ ~Collinear(points[2], points[3], points[4])
  /\ Cross(points[2], points[3], points[1]) = 0
  /\ ~OnSegment(points[2], points[3], points[1])
  /\ result = "false"

\* C21: isWithinTriangle(point, a, b, c) throws exactly when a, b and c are
\* collinear (two or three of them equal included), whatever the point is,
\* also when the point is one of a, b, c; it never throws otherwise.
C21_ThrowsExactlyOnCollinearTriangle ==
  (method = "isWithinTriangle" /\ pc # "call") =>
    (pc = "threw" <=> Collinear(points[2], points[3], points[4]))

C21_Witness ==
  /\ method = "isWithinTriangle" /\ pc = "threw"
  /\ points[2] # points[3] /\ points[3] # points[4] /\ points[2] # points[4]
  /\ Collinear(points[2], points[3], points[4])
  /\ points[1] = points[2]

\* The vertex at position k of remainingVertices makes a convex angle with
\* the vertices now before and after it.
ConvexNow(k) ==
  isTriangleOrientedCCW(PointOf(points, PrevIn(remainingVertices, k)),
                        PointOf(points, At(remainingVertices, k)),
                        PointOf(points, NextIn(remainingVertices, k)))

\* C23: in improvedTriangulation on a simple polygon in the expected
\* winding, whenever an iteration of the while loop starts the recorded
\* convexity isConvex[v] of every remaining vertex v is the convexity of the
\* angle v makes with its two current neighbours.
C23_RecordedConvexityIsCurrent ==
  (/\ method = "improvedTriangulation" /\ pc = "loop"
   /\ Len(remainingVertices) > 3
   /\ ValidPolygon(points)) =>
    \A k \in 0..(Len(remainingVertices) - 1) :
      isConvexOf[At(remainingVertices, k)] = ConvexNow(k)

\* The points of pts (up to the k-th) whose angle isConvex does not call
\* convex, in boundary order: the points optimizedEarCutting classifies as
\* concave.
RECURSIVE ConcavePointsTo(_, _)
ConcavePointsTo(pts, k) ==
  IF k = 0 THEN <<>>
  ELSE LET n == Len(pts)
           rest == ConcavePointsTo(pts, k - 1)
       IN  IF isConvex(pts[((k + n - 2) % n) + 1], pts[k], pts[(k % n) + 1])
           THEN rest ELSE Append(rest, pts[k])

ConcavePoints(pts) == ConcavePointsTo(pts, Len(pts))

\* isEar(pts[0], pts[1], pts[2], otherPoints) with otherPoints a circular
\* list of nodes that wrap the concave points only.
isEar_AgainstConcave(pts) ==
  LET cp == ConcavePoints(pts)
      l == BuiltList(Len(cp))
  IN  isEar(cp, l.next, pts[1], pts[2], pts[3],
            [head |-> l.head, size |-> l.size])

\* The winding in which isConvex of the linked-list variant is true at the
\* convex corners ("vertices in clockwise order", in axes with y pointing
\* up).
LinkedWinding(pts) == Area2(pts) < 0

\* C24: for a simple polygon in the winding of the linked-list variant and a
\* vertex b with a convex angle between its neighbours a and c, isEar(a, b,
\* c, list of all the vertices) returns what isEar(a, b, c, list of the
\* concave vertices) returns.
C24_ConcaveCandidatesSuffice ==
  (/\ method = "isEar" /\ pc # "call"
   /\ IsSimple(points) /\ LinkedWinding(points)
   /\ isConvex(points[1], points[2], points[3])) =>
    result = isEar_AgainstConcave(points)

C24_Witness ==
  /\ method = "isEar" /\ pc = "returned"
  /\ IsSimple(points) /\ LinkedWinding(points)
  /\ isConvex(points[1], points[2], points[3])
  /\ Len(ConcavePoints(points)) < Len(points) - 3
  /\ result = "false"
  /\ isEar_AgainstConcave(points) = "false"

\* The same in the other winding, where isConvex is true at the reflex
\* corners.
isEar_ConcaveCandidatesSuffice_OtherWinding ==
  (/\ method = "isEar" /\ pc # "call"
   /\ IsSimple(points) /\ ExpectedWinding(points)
   /\ isConvex(points[1], points[2], points[3])) =>
    result = isEar_AgainstConcave(points)

\* The nodes of the list (h, sz) over the links nx, in order from the head.
ListSeq(h, sz, nx) == [k \in 1..sz |-> NthNextIn(nx, h, k - 1)]

Without(s, x) == SelectSeq(s, LAMBDA y : y # x)

\* C25: delete(node) of a node of a list of size k >= 1 leaves a list of
\* size k - 1 whose nodes, from the head on, are the nodes it had without
\* node, in the order they had; if node was the head of a longer list, the
\* head is now the node that followed it; if node was the only node, the
\* list is empty (head null, size 0).
C25_DeleteRemovesOneNode ==
  [][\A node \in members :
       (method = "CircularList" /\ members' = members \ {node}) =>
         /\ size >= 1 /\ size' = size - 1
         /\ ListSeq(head', size', next') =
              Without(ListSeq(head, size, next), node)
         /\ (node = head /\ size > 1) => head' = next[head]
         /\ size = 1 => (head' = Null /\ size' = 0)]_vars

\* A list of two or more nodes whose head follows a node that has been
\* deleted, and still has another node before it.
C25_Witness ==
  /\ method = "CircularList" /\ size >= 2
  /\ \E d \in Nodes \ members : next[d] = head /\ prev[head] # d

\* The size of the boundary of the driver that was called: the length of
\* remainingVertices, or the size of the list `vertices`.
BoundarySize ==
  IF method \in ClassMethods THEN Len(remainingVertices) ELSE size

\* The points of the boundary, in order from its first vertex.
BoundaryPoints ==
  IF method \in ClassMethods
  THEN [k \in 1..Len(remainingVertices) |->
          PointOf(points, remainingVertices[k])]
  ELSE [k \in 1..size |-> points[NthNext(head, k - 1)]]

\* The driver has built its boundary and is in its loops or has returned.
BoundaryInUse ==
  /\ method \in Methods /\ Len(points) >= 3
  /\ \/ pc \in {"loop", "classify", "markEars", "returned"}
     \/ method \in ClassMethods /\ pc = "threw"

\* C26: once a driver called on 3 or more points has its boundary, the
\* boundary has 3 or more vertices in every state; a step removes a vertex
\* only from a boundary of more than 3, and one at a time; and the step that
\* returns adds one triangle whose corners are the 3 vertices that remain.
C26_BoundaryKeepsThreeVertices ==
  /\ [](BoundaryInUse => BoundarySize >= 3)
  /\ [][(BoundaryInUse /\ BoundarySize' # BoundarySize) =>
          (BoundarySize > 3 /\ BoundarySize' = BoundarySize - 1)]_vars
  /\ [][(BoundaryInUse /\ pc = "loop" /\ pc' = "returned") =>
          /\ BoundarySize = 3 /\ BoundarySize' = 3
          /\ Len(triangles') = Len(triangles) + 1
          /\ PointSet(triangles'[Len(triangles')]) = PointSet(BoundaryPoints)
          /\ Cardinality(PointSet(BoundaryPoints)) = 3]_vars

\* A call on more than 3 points has clipped down to 3 vertices and returned.
C26_Witness ==
  /\ method = "naiveTriangulation" /\ pc = "returned"
  /\ Len(points) > 3 /\ Len(remainingVertices) = 3
  /\ Len(triangles) = Len(points) - 2

\* The vertex at position k of the boundary b with the vertices before and
\* after it.
CornerAt(b, k) ==
  <<b[((k + Len(b) - 2) % Len(b)) + 1], b[k], b[(k % Len(b)) + 1]>>

\* C27: in the clipping loop of a driver called on n points, the triangles
\* pushed so far and the vertices still in the boundary are n together; a
\* step that changes the boundary removes one vertex of it, leaves the
\* others in their order, and pushes one triangle: the vertex it removes
\* between the two neighbours that vertex had.
C27_OneTrianglePerClippedVertex ==
  /\ []((method \in Methods /\ pc = "loop") =>
         Len(triangles) + BoundarySize = Len(points))
  /\ [][(method \in Methods /\ pc = "loop"
          /\ BoundaryPoints' # BoundaryPoints) =>
          \E k \in 1..BoundarySize :
            /\ BoundaryPoints' = Without(BoundaryPoints, BoundaryPoints[k])
            /\ triangles' = Append(triangles, CornerAt(BoundaryPoints, k))]_vars

\* improvedTriangulation has clipped a vertex and has another to clip.
C27_Witness ==
  /\ method = "improvedTriangulation" /\ pc = "loop"
  /\ Len(triangles) >= 1 /\ Len(remainingVertices) > 3
  /\ Len(triangles) + Len(remainingVertices) = Len(points)

\* The vertex at position k of the boundary b turns the way the driver
\* calls convex, and no other vertex of b lies in the closed triangle it
\* makes with its neighbours (by areas).
IsEarByArea(b, k) ==
  LET t == CornerAt(b, k)
  IN  /\ IF method \in ClassMethods
         THEN Cross(t[1], t[2], t[3]) > 0 ELSE Cross(t[1], t[2], t[3]) < 0
      /\ \A j \in 1..Len(b) :
           b[j] \notin {t[1], t[2], t[3]} =>
             ~InTriangleByArea(b[j], t[1], t[2], t[3])

\* C28: every vertex improvedTriangulation or optimizedEarCutting removes
\* from the boundary is, in the boundary it is removed from, a valid ear:
\* its angle is convex and no other vertex of that boundary lies in its
\* triangle, whatever the recorded flags say.
C28_OnlyEarsAreClipped ==
  [][(method \in {"improvedTriangulation", "optimizedEarCutting"}
      /\ BoundaryInUse /\ BoundaryPoints' # BoundaryPoints) =>
      \E k \in 1..BoundarySize :
        /\ BoundaryPoints' = Without(BoundaryPoints, BoundaryPoints[k])
        /\ IsValidEar(BoundaryPoints, k)
        /\ IsEarByArea(BoundaryPoints, k)]_vars

\* The vertex improvedTriangulation clipped last was recorded as not convex:
\* it was found by the second for loop.
C28_Witness ==
  /\ method = "improvedTriangulation" /\ pc = "loop"
  /\ Len(triangles) >= 1
  /\ \E v \in 0..(Len(points) - 1) :
       /\ PointOf(points, v) = triangles[Len(triangles)][2]
       /\ ~isConvexOf[v]

\* C29: for every triple of points a, b, c, isConvex(a, b, c) of the
\* linked-list variant and isTriangleOrientedCCW(a, b, c) of
\* PolygonTriangulation give the same answer.
C29_SameConvexityConvention ==
  (method \in EarFunctions /\ pc # "call") =>
    (isConvex(points[1], points[2], points[3]) =
       isTriangleOrientedCCW(points[1], points[2], points[3]))

\* What holds instead: the two are opposite on every triple that is not
\* collinear, and both false on a collinear one.
isConvex_IsTheOppositeTurn ==
  (method \in EarFunctions /\ pc # "call") =>
    LET a == points[1]
        b == points[2]
        c == points[3]
    IN  IF Collinear(a, b, c)
        THEN ~isConvex(a, b, c) /\ ~isTriangleOrientedCCW(a, b, c)
        ELSE isConvex(a, b, c) = ~isTriangleOrientedCCW(a, b, c)

\* C30: a call of naiveTriangulation or improvedTriangulation on fewer than
\* 3 points ends at once by returning an empty list of triangles; it throws
\* nothing.
C30_TooFewPointsReturnNothing ==
  (method \in ClassMethods /\ Len(points) < 3 /\ pc # "call") =>
    (pc = "returned" /\ triangles = <<>> /\ err = "")

C30_Witness ==
  /\ method = "improvedTriangulation" /\ Len(points) = 2
  /\ pc = "returned" /\ triangles = <<>>

(***************************************************************************)
(* The properties that fail only in the linked-list drivers, restricted to *)
(* PolygonTriangulation, where they hold.                                  *)
(***************************************************************************)
OfPolygonTriangulation(P) == method \in ClassMethods => P

PolygonTriangulation_ReturnsNMinus2Triangles ==
  OfPolygonTriangulation(C1_ReturnsNMinus2Triangles)
PolygonTriangulation_AreaIsPreserved ==
  OfPolygonTriangulation(C2_AreaIsPreserved)
PolygonTriangulation_TrianglesOrientedAsPolygon ==
  OfPolygonTriangulation(C3_TrianglesOrientedAsPolygon)
PolygonTriangulation_NoVertexInsideATriangle ==
  OfPolygonTriangulation(C4_NoVertexInsideATriangle)
PolygonTriangulation_MethodsAgree ==
  OfPolygonTriangulation(C6_MethodsAgree)
PolygonTriangulation_SquareFixture ==
  OfPolygonTriangulation(C7_SquareFixture)
PolygonTriangulation_NoEarIsAnError ==
  OfPolygonTriangulation(C9_NoEarIsAnError)

\* In the loop of PolygonTriangulation, a state with more than 3 vertices
\* and no valid ear has a next step, and every next step throws.
PolygonTriangulation_NoEarThrows ==
  /\ [](pc = "loop" /\ NoEarLeft =>
          ENABLED (Next /\ pc' = "threw" /\ err' = "NoEarFound"))
  /\ [][pc = "loop" /\ NoEarLeft => pc' = "threw" /\ err' = "NoEarFound"]_vars

====
